---- MODULE Spec2Model ----
(***************************************************************************)
(* TreeifierUtils (src/src/treeifier-utils.ts): the four node processors,  *)
(* the colour registry and the bottom-up traversal that calls a processor  *)
(* once per node and caches its result in the node's processResult.        *)
(*                                                                         *)
(* A string is a sequence of atoms (the empty string is << >>), so that    *)
(* "ends with", "contains" and "is empty" are checkable.  A colour         *)
(* function wraps a non-empty text between an opening and a closing code.  *)
(***************************************************************************)
EXTENDS Integers, Sequences, FiniteSets, TLC

VARIABLES tree, strategy, processResult, done, failed, calls,
          StructureColor, KeyColor, ValueColor, CircularColor,
          writes, resetsInRow

vars == <<tree, strategy, processResult, done, failed, calls,
          StructureColor, KeyColor, ValueColor, CircularColor,
          writes, resetsInRow>>

registry == <<StructureColor, KeyColor, ValueColor, CircularColor>>

-----------------------------------------------------------------------------
(* Bounds *)

\* registry writes (assignments and resets) interleaved with one traversal
MaxWrites == 3

\* children of the node under test in the single-node specification
MaxChildren == 2

-----------------------------------------------------------------------------
(* JavaScript values and strings *)

\* the two nullish values, as one-atom texts that no real string equals
UNDEFINED == <<"#undefined">>
NULL == <<"#null">>

IsNullish(x) == x = UNDEFINED \/ x = NULL

\* String(x): what x contributes to a string concatenation
ToStr(x) ==
  IF x = UNDEFINED THEN <<"undefined">>
  ELSE IF x = NULL THEN <<"null">>
  ELSE x

\* a + b on strings
Plus(a, b) == ToStr(a) \o ToStr(b)

\* a ?? b
Coalesce(a, b) == IF IsNullish(a) THEN b ELSE a

\* one-atom text of a string; '' is the empty text
T(s) == IF s = "" THEN << >> ELSE <<s>>

\* node.value (any): type tag, number / boolean (0,1) / length, the text of
\* a string, and the value's own "path" property (UNDEFINED when it has none)
Val(t, n, s, p) == [t |-> t, n |-> n, s |-> s, path |-> p]

vNull == Val("null", 0, << >>, UNDEFINED)
vUndefined == Val("undefined", 0, << >>, UNDEFINED)
vBool(b) == Val("boolean", IF b THEN 1 ELSE 0, << >>, UNDEFINED)
vNum(n) == Val("number", n, << >>, UNDEFINED)
vStr(s) == Val("string", Len(s), s, UNDEFINED)
vArr(n) == Val("array", n, << >>, UNDEFINED)
vObj(n, p) == Val("object", n, << >>, p)

\* decimal digits of the numbers the model uses
NumStr(n) ==
  CASE n = -1 -> "-1" [] n = 0 -> "0" [] n = 1 -> "1" [] n = 2 -> "2"
    [] n = 3 -> "3" [] OTHER -> "n"

-----------------------------------------------------------------------------
(* Colours *)

defaultStructureColor == "blue"
defaultKeyColor == "white"
defaultValueColor == "greenBright"
defaultCircularColor == "redBright"

\* the colour functions a caller assigns
Palette == {"blue", "magenta"}

AllColors ==
  Palette \cup {defaultStructureColor, defaultKeyColor, defaultValueColor,
                defaultCircularColor}

Open(c) == "{" \o c \o "}"
Close(c) == "{/" \o c \o "}"

StyleCodes == {Open(c) : c \in AllColors} \cup {Close(c) : c \in AllColors}

\* a colour call that styles with the default structure colour whatever the
\* registry entry holds
ColorOfDefault(c, s) ==
  IF s = << >> THEN << >>
  ELSE <<Open(defaultStructureColor)>> \o s \o <<Close(defaultStructureColor)>>

\* chalk.<c>( s ): the empty string stays empty
Color(c, s) == IF s = << >> THEN << >> ELSE <<Open(c)>> \o s \o <<Close(c)>>

\* the text without its colour codes
Strip(s) == SelectSeq(s, LAMBDA a : a \notin StyleCodes)

-----------------------------------------------------------------------------
(* Node kinds *)

\* enum TreeifierNodeTypes: the member names, in the order of their numbers
\* (the first member is number 0)
TreeifierNodeTypes ==
  <<"unknown", "emptyObject", "nonEmptyObject", "emptyArray", "nonEmptyArray",
    "arrayofobjects", "function", "value">>

unknown == 0
emptyObject == 1
nonEmptyObject == 2
emptyArray == 3
nonEmptyArray == 4
arrayofobjects == 5
ntValue == 7

\* TreeifierNodeTypes[nodetype]: undefined for what is no member
nodeTypeToString(nodetype) ==
  IF nodetype + 1 \in DOMAIN TreeifierNodeTypes
  THEN <<TreeifierNodeTypes[nodetype + 1]>>
  ELSE UNDEFINED

-----------------------------------------------------------------------------
(* TreeifierNode: tree[n] is the node with index n; 0 stands for null *)

Node(key, value, parent, nodeType, ancestors, isCircular, ref, branch, children, prefix, joint, path) ==
  [key |-> key, value |-> value, parent |-> parent, nodeType |-> nodeType,
   ancestors |-> ancestors, isCircular |-> isCircular,
   circularRefNode |-> ref, isBranch |-> branch,
   children |-> children, prefix |-> prefix, joint |-> joint, path |-> path]

isBranch(node) == node.isBranch
isLeaf(node) == ~node.isBranch

\* node.toString(): the display string of the node's value
toString(node) ==
  LET v == node.value IN
  CASE v.t = "null" -> <<"null">>
    [] v.t = "undefined" -> <<"undefined">>
    [] v.t = "boolean" -> IF v.n = 1 THEN <<"true">> ELSE <<"false">>
    [] v.t = "number" -> <<NumStr(v.n)>>
    [] v.t = "string" -> v.s
    [] v.t = "array" -> <<"[", "]">>
    [] OTHER -> <<"object">>

\* node.circularRefNode?.key, ?.path and .value.path
refKey(node) ==
  IF node.circularRefNode = 0 THEN UNDEFINED
  ELSE T(tree[node.circularRefNode].key)
refPath(node) ==
  IF node.circularRefNode = 0 THEN UNDEFINED
  ELSE T(tree[node.circularRefNode].path)
refValuePath(node) == tree[node.circularRefNode].value.path

\* node.parent?.nodeType (-1 stands for undefined)
parentNodeType(node) ==
  IF node.parent = 0 THEN -1 ELSE tree[node.parent].nodeType

\* node.children.forEach( child => child.processResult &&
\*                        ( result = result + '\n' + child.processResult ) )
RECURSIVE forEachChildSkipNothing(_, _)
forEachChildSkipNothing(result, children) ==
  IF children = << >> THEN result
  ELSE forEachChildSkipNothing(
         result \o <<"\n">> \o processResult[Head(children)], Tail(children))

RECURSIVE forEachChild(_, _)
forEachChild(result, children) ==
  IF children = << >> THEN result
  ELSE forEachChild(
         IF processResult[Head(children)] # << >>
         THEN result \o <<"\n">> \o processResult[Head(children)]
         ELSE result,
         Tail(children))

-----------------------------------------------------------------------------
(* The processors *)

defaultColoredTypesProcessor(n) ==
  LET node == tree[n]
      result ==
        Color(StructureColor, Plus(T(node.prefix), T(node.joint))) \o
        Color(KeyColor, T(node.key)) \o
        Color(StructureColor, <<" : ">>) \o
        Color(ValueColor, ToStr(nodeTypeToString(node.nodeType)))
  IN IF isBranch(node) THEN forEachChild(result, node.children) ELSE result

\* node.isCircular ? ' -> ' + node.circularRefNode?.key ?? '?' : ''
\* ('+' binds tighter than '??')
valuesCircular(node) ==
  IF node.isCircular
  THEN Coalesce(Plus(<<" -> ">>, refKey(node)), <<"?">>)
  ELSE << >>

defaultColoredValuesProcessor(n) ==
  LET node == tree[n]
      circular == valuesCircular(node)
      nodeValue == IF isLeaf(node) THEN toString(node) ELSE << >>
      result ==
        Color(StructureColor, Plus(T(node.prefix), T(node.joint))) \o
        Color(KeyColor, T(node.key)) \o
        Color(StructureColor, IF nodeValue # << >> THEN <<" : ">> ELSE << >>) \o
        Color(ValueColor, nodeValue) \o
        Color(CircularColor, circular)
  IN IF isBranch(node) THEN forEachChild(result, node.children) ELSE result

\* const listType = ( nodeType === arrayofobjects ) ? 'ol start="0"' : 'ul'
listType(node) ==
  IF node.nodeType = arrayofobjects
  THEN <<"o", "l", " start=\"0\"">>
  ELSE <<"u", "l">>

listCloseNameUl(node) == <<"u", "l">>

\* listType.substr( 0, 2 )
listCloseName(node) == SubSeq(listType(node), 1, 2)

htmlCircularKey(node) == Coalesce(refKey(node), <<"?">>)
htmlCircularPath(node) == Coalesce(refPath(node), << >>)

htmlCircularLinkPlainFallback(node) ==
  IF node.isCircular /\ node.circularRefNode # 0
  THEN <<"<a href=\"#list@">> \o htmlCircularPath(node) \o <<"\">">> \o
       htmlCircularKey(node) \o <<"</a>">>
  ELSE htmlCircularKey(node)

htmlCircularLink(node) ==
  IF node.isCircular
  THEN <<"<a href=\"#list@">> \o htmlCircularPath(node) \o <<"\">">> \o
       htmlCircularKey(node) \o <<"</a>">>
  ELSE htmlCircularKey(node)

htmlCircularReference(node) ==
  IF node.isCircular
  THEN <<"<span class=\"circularlink\">">> \o htmlCircularLink(node) \o
       <<"</span>">>
  ELSE << >>

htmlNodeTypeClass(node) == <<"nt_">> \o ToStr(nodeTypeToString(node.nodeType))

htmlNodeKeyByOwnType(node) ==
  IF node.nodeType = arrayofobjects
  THEN << >>
  ELSE <<"<span class=\"key\">">> \o T(node.key) \o <<"</span>: ">>

htmlNodeKey(node) ==
  IF parentNodeType(node) = arrayofobjects
  THEN << >>
  ELSE <<"<span class=\"key\">">> \o T(node.key) \o <<"</span>: ">>

htmlNodeValue(node) ==
  IF isLeaf(node)
  THEN <<"<span class=\"value">> \o
       (IF node.isCircular THEN <<" circular">> ELSE << >>) \o <<"\">">> \o
       toString(node) \o <<"</span> ">> \o htmlCircularReference(node)
  ELSE << >>

\* a list item whose class names what the node is: "branch" for a branch
htmlOpenItemByKind(node) ==
  IF node.parent # 0
  THEN <<"<li id=\"">> \o T(node.path) \o <<"\" class=\"">> \o
       (IF isBranch(node) THEN <<"branch ">> ELSE <<"leaf ">>) \o
       htmlNodeTypeClass(node) \o <<"\">", "\n">> \o
       htmlNodeKey(node) \o htmlNodeValue(node)
  ELSE << >>

\* node.parent && ( result = `<li id=... class="leaf ...">\n${nodeKey}${nodeValue}` )
htmlOpenItem(node) ==
  IF node.parent # 0
  THEN <<"<li id=\"">> \o T(node.path) \o <<"\" class=\"">> \o
       <<"leaf ">> \o htmlNodeTypeClass(node) \o <<"\">", "\n">> \o
       htmlNodeKey(node) \o htmlNodeValue(node)
  ELSE << >>

htmlList(node) ==
  LET open == <<"<">> \o listType(node) \o <<" id=\"list@">> \o
              T(node.path) \o <<"\" class=\"">> \o <<"branch ">> \o
              htmlNodeTypeClass(node) \o <<"\">">>
  IN forEachChild(open, node.children) \o
     <<"\n", "</">> \o listCloseName(node) \o <<">">>

htmlCloseItemAlways(node) == <<"\n", "</li>">>

\* node.parent && ( result += '\n</li>' )
htmlCloseItem(node) ==
  IF node.parent # 0 THEN <<"\n", "</li>">> ELSE << >>

defaultHTMLProcessor(n) ==
  LET node == tree[n]
      result == htmlOpenItem(node)
      withList ==
        IF isBranch(node) THEN result \o <<"\n">> \o htmlList(node) ELSE result
  IN withList \o htmlCloseItem(node)

-----------------------------------------------------------------------------
(* debugProcessor *)

\* nodeValueString.replace( /\r?\n|\r/g, '\\n' )
RECURSIVE replaceLineBreaks(_)
replaceLineBreaks(s) ==
  IF s = << >> THEN << >>
  ELSE IF Len(s) >= 2 /\ s[1] = "\r" /\ s[2] = "\n"
       THEN <<"\\n">> \o replaceLineBreaks(SubSeq(s, 3, Len(s)))
  ELSE IF s[1] = "\n" \/ s[1] = "\r"
       THEN <<"\\n">> \o replaceLineBreaks(Tail(s))
  ELSE <<s[1]>> \o replaceLineBreaks(Tail(s))

\* array.join( ', ' ): undefined and null elements give ''
RECURSIVE join(_)
join(parts) ==
  IF parts = << >> THEN << >>
  ELSE (IF IsNullish(Head(parts)) THEN << >> ELSE Head(parts)) \o
       (IF Len(parts) > 1 THEN <<", ">> \o join(Tail(parts)) ELSE << >>)

valueNotAboveZero(v) == v.t = "number" /\ v.n <= 0

\* node.value < 0
valueBelowZero(v) == v.t = "number" /\ v.n < 0

\* node.value != true
valueNotTrue(v) ==
  ~((v.t = "boolean" /\ v.n = 1) \/ (v.t = "number" /\ v.n = 1))

\* node.value.length < 1 (length is undefined but for strings and arrays)
valueLengthBelowOne(v) == v.t \in {"string", "array"} /\ v.n < 1

\* node.value.length of null or undefined is a TypeError
debugThrows(node) ==
  node.key = "children" /\ node.value.t \in {"null", "undefined"}

debugCircular(node) ==
  IF node.isCircular /\ node.circularRefNode # 0
  THEN Coalesce(refValuePath(node), T(tree[node.circularRefNode].key))
  ELSE << >>

\* '[' + node.ancestors.map( element => element.value.path ).join( ', ' ) + ']'
debugAncestors(node) ==
  Plus(Plus(<<"[">>,
            join([i \in 1..Len(node.ancestors) |->
                    tree[node.ancestors[i]].value.path])),
       <<"]">>)

debugNodeValueString(node) ==
  IF node.key = "ancestors" THEN debugAncestors(node)
  ELSE IF node.key = "nodeType"
       THEN IF node.value.t = "number"
            THEN nodeTypeToString(node.value.n) ELSE UNDEFINED
  ELSE IF node.key = "processResult" THEN replaceLineBreaks(toString(node))
  ELSE toString(node)

\* the early returns of lines 99 and 102-105
debugSuppressed(node) ==
  \/ node.key = "ancestors" /\ node.circularRefNode = 0
  \/ node.key = "circularRefIndex" /\ valueBelowZero(node.value)
  \/ node.key = "circularRefNode" /\ node.value.t = "null"
  \/ node.key = "isCircular" /\ valueNotTrue(node.value)
  \/ node.key = "children" /\ valueLengthBelowOne(node.value)

debugExpandsEveryBranch(node) == isBranch(node)

debugExpandsChildren(node) == isBranch(node) /\ ~(node.key = "ancestors")

debugProcessor(n) ==
  LET node == tree[n]
      circular == debugCircular(node)
      nodeValueString == debugNodeValueString(node)
      result ==
        Color(StructureColor, Plus(T(node.prefix), T(node.joint))) \o
        Color(KeyColor, T(node.key)) \o
        Color(ValueColor,
              IF isLeaf(node) \/ node.key = "ancestors"
              THEN Plus(<<" ">>, nodeValueString) ELSE << >>) \o
        Color(CircularColor, Plus(<<" ">>, circular))
  IN IF debugSuppressed(node) THEN << >>
     ELSE IF debugExpandsChildren(node)
          THEN forEachChild(result, node.children)
          ELSE result

-----------------------------------------------------------------------------
(* The traversal: the processor runs once per node, children first, and its *)
(* result is cached in the node's processResult                             *)

Max(S) == CHOOSE x \in S : \A y \in S : y <= x

\* children have larger indices than their parent: the largest index not
\* yet processed has all its children processed
nextNode == Max(DOMAIN tree \ done)

CanProcess(s) == strategy = s /\ ~failed /\ done # DOMAIN tree

\* strategy invocations one call of a processor on a node amounts to: the
\* processors read child.processResult and call no processor
invocationsOfRecursing(n) == 1 + Len(tree[n].children)

invocationsOf(n) == 1

Cache(n, result) ==
  /\ processResult' = [processResult EXCEPT ![n] = result]
  /\ done' = done \cup {n}
  /\ calls' = calls + invocationsOf(n)
  /\ UNCHANGED <<tree, strategy, failed, StructureColor, KeyColor, ValueColor,
                 CircularColor, writes, resetsInRow>>

ProcessTypes ==
  /\ CanProcess("Types")
  /\ Cache(nextNode, defaultColoredTypesProcessor(nextNode))

ProcessValues ==
  /\ CanProcess("Values")
  /\ Cache(nextNode, defaultColoredValuesProcessor(nextNode))

ProcessHTML ==
  /\ CanProcess("HTML")
  /\ Cache(nextNode, defaultHTMLProcessor(nextNode))

ProcessDebug ==
  /\ CanProcess("Debug")
  /\ IF debugThrows(tree[nextNode])
     THEN /\ failed' = TRUE
          /\ calls' = calls + invocationsOf(nextNode)
          /\ UNCHANGED <<tree, strategy, processResult, done, StructureColor,
                         KeyColor, ValueColor, CircularColor, writes,
                         resetsInRow>>
     ELSE Cache(nextNode, debugProcessor(nextNode))

-----------------------------------------------------------------------------
(* The colour registry *)

Write ==
  /\ writes < MaxWrites
  /\ writes' = writes + 1
  /\ UNCHANGED <<tree, strategy, processResult, done, failed, calls>>

SetStructureColor(c) ==
  /\ Write
  /\ StructureColor' = c
  /\ resetsInRow' = 0
  /\ UNCHANGED <<KeyColor, ValueColor, CircularColor>>

SetKeyColor(c) ==
  /\ Write
  /\ KeyColor' = c
  /\ resetsInRow' = 0
  /\ UNCHANGED <<StructureColor, ValueColor, CircularColor>>

SetValueColor(c) ==
  /\ Write
  /\ ValueColor' = c
  /\ resetsInRow' = 0
  /\ UNCHANGED <<StructureColor, KeyColor, CircularColor>>

SetCircularColor(c) ==
  /\ Write
  /\ CircularColor' = c
  /\ resetsInRow' = 0
  /\ UNCHANGED <<StructureColor, KeyColor, ValueColor>>

resetKeepsCircularColor ==
  /\ StructureColor' = defaultStructureColor
  /\ KeyColor' = defaultKeyColor
  /\ ValueColor' = defaultValueColor
  /\ CircularColor' = CircularColor

resetToDefaults ==
  /\ StructureColor' = defaultStructureColor
  /\ KeyColor' = defaultKeyColor
  /\ ValueColor' = defaultValueColor
  /\ CircularColor' = defaultCircularColor

resetAllColors ==
  /\ Write
  /\ resetToDefaults
  /\ resetsInRow' = resetsInRow + 1

-----------------------------------------------------------------------------
(* Node trees as the parser builds them *)

Strategies == {"Types", "Values", "HTML", "Debug"}

\* the joint of a child: the last child closes the branch
jointOf(i, count) == IF i = count THEN "+- " ELSE "|- "

\* a = { self: a [, x: 2] } labelled rootKey
SelfRefTree(rootKey, withSibling) ==
  LET count == IF withSibling THEN 2 ELSE 1
      value == vObj(count, UNDEFINED)
      root == Node(rootKey, value, 0, nonEmptyObject, << >>, FALSE, 0, TRUE,
                   IF withSibling THEN <<2, 3>> ELSE <<2>>, "", "", rootKey)
      self == Node("self", value, 1, nonEmptyObject, <<1>>, TRUE, 1, FALSE,
                   << >>, "", jointOf(1, count), rootKey \o ".self")
      sibling == Node("x", vNum(2), 1, ntValue, <<1>>, FALSE, 0, FALSE,
                      << >>, "", jointOf(2, count), rootKey \o ".x")
  IN IF withSibling THEN <<root, self, sibling>> ELSE <<root, self>>

\* person = { name: "x", age: 2 }
PersonTree ==
  <<Node("person", vObj(2, UNDEFINED), 0, nonEmptyObject, << >>, FALSE, 0,
         TRUE, <<2, 3>>, "", "", "person"),
    Node("name", vStr(<<"x">>), 1, ntValue, <<1>>, FALSE, 0, FALSE, << >>,
         "", jointOf(1, 2), "person.name"),
    Node("age", vNum(2), 1, ntValue, <<1>>, FALSE, 0, FALSE, << >>,
         "", jointOf(2, 2), "person.age")>>

\* list = [ { k: 2 } ]
ListTree ==
  <<Node("list", vArr(1), 0, arrayofobjects, << >>, FALSE, 0, TRUE, <<2>>,
         "", "", "list"),
    Node("0", vObj(1, UNDEFINED), 1, nonEmptyObject, <<1>>, FALSE, 0, TRUE,
         <<3>>, "", jointOf(1, 1), "list.0"),
    Node("k", vNum(2), 2, ntValue, <<1, 2>>, FALSE, 0, FALSE, << >>,
         "   ", jointOf(1, 1), "list.0.k")>>

\* o = { children: null }
NullChildrenTree ==
  <<Node("o", vObj(1, UNDEFINED), 0, nonEmptyObject, << >>, FALSE, 0, TRUE,
         <<2>>, "", "", "o"),
    Node("children", vNull, 1, unknown, <<1>>, FALSE, 0, FALSE, << >>,
         "", jointOf(1, 1), "o.children")>>

ScenarioTrees ==
  {SelfRefTree(k, b) : k \in {"a", "root"}, b \in BOOLEAN} \cup
  {PersonTree, ListTree, NullChildrenTree}

-----------------------------------------------------------------------------
(* One node under test, its parent and its children, attributes drawn wide *)

Keys ==
  {"a", "ancestors", "children", "circularRefIndex", "circularRefNode",
   "isCircular", "nodeType", "processResult"}

\* the values of leaves that repeat no ancestor
ScalarValues ==
  {vNull, vUndefined, vBool(TRUE), vBool(FALSE), vNum(-1), vNum(0), vNum(1),
   vNum(2), vStr(<< >>), vStr(<<"x">>), vStr(<<"x", "\r", "\n", "y">>),
   vArr(0), vObj(0, UNDEFINED)}

\* the values of leaves that repeat an ancestor: that ancestor's object
RepeatedValues == {vObj(1, UNDEFINED), vObj(1, <<"o.path">>)}

\* the kind the parser gives a leaf value
leafTypeOf(v) ==
  CASE v.t = "array" -> IF v.n = 0 THEN emptyArray ELSE nonEmptyArray
    [] v.t = "object" -> IF v.n = 0 THEN emptyObject ELSE nonEmptyObject
    [] v.t \in {"null", "undefined"} -> unknown
    [] OTHER -> ntValue

\* <<has a "path" property, kind>> of a container
Containers ==
  {<<FALSE, nonEmptyObject>>, <<TRUE, nonEmptyObject>>,
   <<FALSE, nonEmptyArray>>, <<FALSE, arrayofobjects>>}

containerValue(c, count) ==
  IF c[2] = nonEmptyObject
  THEN vObj(count, IF c[1] THEN <<"o.path">> ELSE UNDEFINED)
  ELSE vArr(count)

\* <<key, value>> of a leaf child; an array of objects holds objects
ChildVariants(parentType) ==
  IF parentType = arrayofobjects
  THEN {<<"0", vObj(0, UNDEFINED)>>}
  ELSE {<<"x", vNum(2)>>, <<"circularRefIndex", vNum(-1)>>,
        <<"k", vStr(<< >>)>>}

\* the child lists of a branch: the children of an object have distinct
\* keys; a branch that repeats an ancestor may have no child expanded
ChildLists(parentType, isCircular) ==
  {kids \in UNION {[1..k -> ChildVariants(parentType)] : k \in 1..MaxChildren} :
     parentType = arrayofobjects \/
     \A i, j \in DOMAIN kids : i # j => kids[i] # kids[j]}
  \cup (IF isCircular THEN {<< >>} ELSE {})

\* the parents of the node under test: none, an object, an array of objects
Parents ==
  {<< >>} \cup
  {<<Node("p", containerValue(c, 1), 0, c[2], << >>, FALSE, 0, TRUE, <<2>>,
          "", "", "p")>> :
     c \in {c \in Containers : c[2] # nonEmptyArray}}

underArray(parents) ==
  parents # << >> /\ parents[1].nodeType = arrayofobjects

\* <<isCircular, circularRefNode is the parent>>
Circulars(parents) ==
  {<<FALSE, FALSE>>} \cup
  (IF parents = << >> THEN {} ELSE {<<TRUE, FALSE>>, <<TRUE, TRUE>>})

\* the members of an array are keyed by their index
KeysUnder(parents) == IF underArray(parents) THEN {"0"} ELSE Keys

MicroTree(parents, key, value, nodeType, circ, branch, kids) ==
  LET me == Len(parents) + 1
      up == IF parents = << >> THEN 0 ELSE 1
      path == IF up = 0 THEN key ELSE "p." \o key
      node == Node(key, value, up, nodeType,
                   IF up = 0 THEN << >> ELSE <<1>>, circ[1],
                   IF circ[2] THEN 1 ELSE 0, branch,
                   [i \in DOMAIN kids |-> me + i],
                   "", IF up = 0 THEN "" ELSE jointOf(1, 1), path)
      childKey(i) ==
        IF nodeType = arrayofobjects THEN NumStr(i - 1) ELSE kids[i][1]
      child(i) ==
        Node(childKey(i), kids[i][2], me, leafTypeOf(kids[i][2]),
             IF up = 0 THEN <<me>> ELSE <<1, me>>, FALSE, 0, FALSE, << >>,
             IF up = 0 THEN "" ELSE "   ", jointOf(i, Len(kids)),
             path \o "." \o childKey(i))
  IN parents \o <<node>> \o [i \in DOMAIN kids |-> child(i)]

\* a leaf holds a scalar, or repeats an ancestor: its value and kind are
\* those of the node it refers to
LeafTrees ==
  UNION {UNION {UNION {
    {MicroTree(ps, key, v, IF circ[2] THEN ps[1].nodeType ELSE leafTypeOf(v),
               circ, FALSE, << >>) :
       v \in IF circ[2] THEN {ps[1].value}
             ELSE IF circ[1] THEN RepeatedValues
             ELSE IF underArray(ps) THEN {vObj(0, UNDEFINED)}
             ELSE ScalarValues} :
    circ \in Circulars(ps)} : key \in KeysUnder(ps)} : ps \in Parents}

\* the containers a branch may be: the one it repeats, an object in an
\* array of objects, any otherwise
ContainersAt(ps, circ) ==
  IF circ[2]
  THEN {<<ps[1].value.path # UNDEFINED, ps[1].nodeType>>}
  ELSE IF underArray(ps) THEN {c \in Containers : c[2] = nonEmptyObject}
  ELSE Containers

BranchTrees ==
  UNION {UNION {UNION {UNION {
    {MicroTree(ps, key,
               IF circ[2] THEN ps[1].value
               ELSE containerValue(c, IF kids = << >> THEN 1 ELSE Len(kids)),
               c[2], circ, TRUE, kids) :
       kids \in ChildLists(c[2], circ[1])} :
    c \in ContainersAt(ps, circ)} :
    circ \in Circulars(ps)} : key \in KeysUnder(ps)} : ps \in Parents}

\* r = { value: { ancestors: r } }, the repeat with or without a child
\* expanded; r has a "path" property
DeepAncestorsTree(expanded) ==
  LET r == vObj(1, <<"r.path">>) IN
  <<Node("r", r, 0, nonEmptyObject, << >>, FALSE, 0, TRUE, <<2>>, "", "",
         "r"),
    Node("value", vObj(1, UNDEFINED), 1, nonEmptyObject, <<1>>, FALSE, 0,
         TRUE, <<3>>, "", jointOf(1, 1), "r.value"),
    Node("ancestors", r, 2, nonEmptyObject, <<1, 2>>, TRUE, 1, expanded,
         IF expanded THEN <<4>> ELSE << >>, "   ", jointOf(1, 1),
         "r.value.ancestors")>> \o
  (IF expanded
   THEN <<Node("x", vNum(2), 3, ntValue, <<1, 2, 3>>, FALSE, 0, FALSE, << >>,
               "      ", jointOf(1, 1), "r.value.ancestors.x")>>
   ELSE << >>)

MicroTrees ==
  LeafTrees \cup BranchTrees \cup {DeepAncestorsTree(b) : b \in BOOLEAN}

-----------------------------------------------------------------------------
(* Specifications *)

InitWith(trees) ==
  /\ tree \in trees
  /\ strategy \in Strategies
  /\ processResult = [n \in DOMAIN tree |-> << >>]
  /\ done = {}
  /\ failed = FALSE
  /\ calls = 0
  /\ StructureColor = defaultStructureColor
  /\ KeyColor = defaultKeyColor
  /\ ValueColor = defaultValueColor
  /\ CircularColor = defaultCircularColor
  /\ writes = 0
  /\ resetsInRow = 0

Init == InitWith(ScenarioTrees)

Process == ProcessTypes \/ ProcessValues \/ ProcessHTML \/ ProcessDebug

Next ==
  \/ ProcessTypes
  \/ ProcessValues
  \/ ProcessHTML
  \/ ProcessDebug
  \/ \E c \in Palette : SetStructureColor(c)
  \/ \E c \in Palette : SetKeyColor(c)
  \/ \E c \in Palette : SetValueColor(c)
  \/ \E c \in Palette : SetCircularColor(c)
  \/ resetAllColors

\* a traversal interleaved with writes to the colour registry
Spec == Init /\ [][Next]_vars

\* the traversal engine goes on to the next node until none is left
FairSpec == Spec /\ WF_vars(Process)

InitNode == InitWith(MicroTrees)

NextNode ==
  \/ ProcessTypes
  \/ ProcessValues
  \/ ProcessHTML
  \/ ProcessDebug

\* one node with its parent and children, each processor applied bottom-up
SpecNode == InitNode /\ [][NextNode]_vars

-----------------------------------------------------------------------------
(* Reading an output *)

Count(a, s) == Cardinality({i \in DOMAIN s : s[i] = a})

EndsWith(s, suffix) ==
  /\ Len(s) >= Len(suffix)
  /\ SubSeq(s, Len(s) - Len(suffix) + 1, Len(s)) = suffix

ContainsAt(s, i, block) ==
  /\ i + Len(block) - 1 <= Len(s)
  /\ SubSeq(s, i, i + Len(block) - 1) = block

Contains(s, block) == \E i \in 1..(Len(s) + 1) : ContainsAt(s, i, block)

\* the cached results of the children that have one, in children order,
\* each after a line break
RECURSIVE ChildBlock(_)
ChildBlock(children) ==
  IF children = << >> THEN << >>
  ELSE (IF processResult[Head(children)] # << >>
        THEN <<"\n">> \o processResult[Head(children)] ELSE << >>) \o
       ChildBlock(Tail(children))

\* the line breaks of a branch's output that are its own
OwnLineBreaks(n) ==
  IF strategy = "HTML" THEN (IF tree[n].parent # 0 THEN 4 ELSE 2) ELSE 0

\* the output of n holds the block of its children, and no line break more
ChildrenShown(n) ==
  /\ Contains(processResult[n], ChildBlock(tree[n].children))
  /\ Count("\n", processResult[n]) =
       Count("\n", ChildBlock(tree[n].children)) + OwnLineBreaks(n)

HasEmptyAndShownChild(n) ==
  /\ \E c \in DOMAIN tree[n].children :
       processResult[tree[n].children[c]] = << >>
  /\ \E c \in DOMAIN tree[n].children :
       processResult[tree[n].children[c]] # << >>

-----------------------------------------------------------------------------
(* The claims *)

\* C1 as stated: with every strategy, the output of every processed branch
\* holds the cached result of each child that has one, in children order,
\* each after a line break, and nothing for a child whose result is empty.
C1_EveryStrategyShowsChildren ==
  \A n \in done : isBranch(tree[n]) => ChildrenShown(n)

\* C1 as amended: the same, but in the Debug View only for a branch that is
\* neither suppressed (rendered as the empty string) nor keyed "ancestors".
C1_ChildrenShown ==
  \A n \in done :
    (/\ isBranch(tree[n])
     /\ ~(strategy = "Debug" /\
          (tree[n].key = "ancestors" \/ processResult[n] = << >>)))
    => ChildrenShown(n)

\* a processed branch that renders, with a child that rendered as nothing
\* and a child that rendered
C1_Witness ==
  \E n \in done :
    /\ isBranch(tree[n])
    /\ processResult[n] # << >>
    /\ tree[n].key # "ancestors"
    /\ HasEmptyAndShownChild(n)

\* C2 as stated: in the Values View the line of a circular leaf ends with
\* "-> <key of circularRefNode>", and with "-> ?" when circularRefNode is
\* null.
C2_ValuesCircularAnnotation ==
  \A n \in done :
    (strategy = "Values" /\ isLeaf(tree[n]) /\ tree[n].isCircular)
    => EndsWith(Strip(processResult[n]),
                IF tree[n].circularRefNode = 0
                THEN <<" -> ", "?">>
                ELSE <<" -> ", tree[tree[n].circularRefNode].key>>)

\* the structure a.self = a under the Values View
IsSelfRefValues ==
  /\ strategy = "Values"
  /\ tree \in {SelfRefTree(k, b) : k \in {"a", "root"}, b \in BOOLEAN}

C4_ResetRestoresDefaults ==
  resetsInRow > 0 =>
    registry = <<defaultStructureColor, defaultKeyColor, defaultValueColor,
                 defaultCircularColor>>

\* an assignment, then resetAllColors twice in a row
C4_Witness == resetsInRow = 2 /\ writes = 3

-----------------------------------------------------------------------------
(* Reading an HTML output *)

itemOpen == "<li id=\""
itemClose == "</li>"
keySpan == "<span class=\"key\">"
valueSpan == "<span class=\"value"
linkOpen == "<a href=\"#list@"

RECURSIVE CountInChildren(_, _)
CountInChildren(a, children) ==
  IF children = << >> THEN 0
  ELSE Count(a, processResult[Head(children)]) +
       CountInChildren(a, Tail(children))

\* the occurrences of atom a in the output of n that no child's cached
\* result brought
Own(n, a) ==
  Count(a, processResult[n]) - CountInChildren(a, tree[n].children)

First(a, s) == CHOOSE i \in DOMAIN s : s[i] = a /\ \A j \in 1..(i - 1) : s[j] # a

kindName(n) == TreeifierNodeTypes[tree[n].nodeType + 1]

InHTML(n) == strategy = "HTML" /\ n \in done

\* C5 as stated: in the HTML View a circular leaf links to "list@" + the path
\* of circularRefNode, and when circularRefNode is null it emits the label
\* as plain text, with no hyperlink element.
C5_CircularLinkOrPlainLabel ==
  \A n \in DOMAIN tree :
    (InHTML(n) /\ tree[n].parent # 0 /\ isLeaf(tree[n]) /\ tree[n].isCircular)
    => IF tree[n].circularRefNode # 0
       THEN Contains(processResult[n],
                     <<linkOpen, tree[tree[n].circularRefNode].path, "\">">>)
       ELSE /\ Count(linkOpen, processResult[n]) = 0
            /\ Count("</a>", processResult[n]) = 0
            /\ Count("?", processResult[n]) = 1

\* C5 as amended: a circular leaf always emits the hyperlink; with
\* circularRefNode null its target is "list@" with an empty path and its
\* label is "?".
C5_CircularLinkAlways ==
  \A n \in DOMAIN tree :
    (InHTML(n) /\ tree[n].parent # 0 /\ isLeaf(tree[n]) /\ tree[n].isCircular)
    => EndsWith(processResult[n],
         <<"<span class=\"circularlink\">", linkOpen>> \o
         (IF tree[n].circularRefNode # 0
          THEN <<tree[tree[n].circularRefNode].path, "\">",
                 tree[tree[n].circularRefNode].key>>
          ELSE <<"\">", "?">>) \o
         <<"</a>", "</span>", "\n", itemClose>>)

C5_Witness ==
  \E n \in DOMAIN tree :
    /\ InHTML(n) /\ tree[n].parent # 0 /\ isLeaf(tree[n])
    /\ tree[n].isCircular /\ tree[n].circularRefNode = 0

\* the list element a branch of kind k at path p opens and closes
ListOpening(n) ==
  (IF tree[n].nodeType = arrayofobjects
   THEN <<"<", "o", "l", " start=\"0\"">> ELSE <<"<", "u", "l">>) \o
  <<" id=\"list@", tree[n].path, "\" class=\"", "branch ", "nt_",
    kindName(n), "\">">>

ListClosing(n) ==
  IF tree[n].nodeType = arrayofobjects
  THEN <<"\n", "</", "o", "l", ">">> ELSE <<"\n", "</", "u", "l", ">">>

\* C6: in the HTML View a branch emits exactly one list element, with id
\* "list@<path>" and class "branch nt_<kind>": <ol start="0"> ... </ol> if
\* and only if its own kind is arrayofobjects, <ul> ... </ul> otherwise.
C6_OneListPerBranch ==
  \A n \in DOMAIN tree :
    (InHTML(n) /\ isBranch(tree[n]))
    => /\ Own(n, "<") = 1
       /\ Own(n, "</") = 1
       /\ ContainsAt(processResult[n], First("<", processResult[n]),
                     ListOpening(n))
       /\ EndsWith(processResult[n],
                   ListClosing(n) \o
                   (IF tree[n].parent # 0 THEN <<"\n", itemClose>> ELSE << >>))

C6_Witness ==
  \E n \in DOMAIN tree :
    /\ InHTML(n) /\ isBranch(tree[n])
    /\ tree[n].nodeType = arrayofobjects
    /\ tree[n].children # << >>
    /\ \E m \in DOMAIN tree :
         InHTML(m) /\ isBranch(tree[m]) /\ tree[m].nodeType # arrayofobjects

\* C7: in the HTML View the list item of a node with a parent holds a key
\* label span, with the node's key, if and only if the parent's kind is not
\* arrayofobjects.
C7_KeyLabelUnlessInArray ==
  \A n \in DOMAIN tree :
    (InHTML(n) /\ tree[n].parent # 0)
    => IF tree[tree[n].parent].nodeType # arrayofobjects
       THEN /\ Own(n, keySpan) = 1
            /\ ContainsAt(processResult[n], First(keySpan, processResult[n]),
                          <<keySpan, tree[n].key, "</span>: ">>)
       ELSE Own(n, keySpan) = 0

\* an unlabelled member of an array of objects whose children are labelled
C7_Witness ==
  \E n \in DOMAIN tree :
    /\ InHTML(n) /\ tree[n].parent # 0
    /\ tree[tree[n].parent].nodeType = arrayofobjects
    /\ Count(keySpan, processResult[n]) > 0

\* C8: in the HTML View the root emits no list item tag, key or value of
\* its own but, as a branch, the list of its children; a node with a parent
\* emits one opening list item, whose id is its path, and one closing tag,
\* after the list of its children.
C8_RootHasNoItem ==
  \A n \in DOMAIN tree :
    InHTML(n)
    => IF tree[n].parent = 0
       THEN /\ Own(n, itemOpen) = 0
            /\ Own(n, itemClose) = 0
            /\ Own(n, keySpan) = 0
            /\ Own(n, valueSpan) = 0
            /\ isBranch(tree[n])
                 => /\ Own(n, "<") = 1
                    /\ EndsWith(processResult[n], ListClosing(n))
       ELSE /\ Own(n, itemOpen) = 1
            /\ ContainsAt(processResult[n], 1, <<itemOpen, tree[n].path>>)
            /\ Own(n, itemClose) = 1
            /\ EndsWith(processResult[n], <<"\n", itemClose>>)
            /\ isBranch(tree[n])
                 => EndsWith(processResult[n],
                             ListClosing(n) \o <<"\n", itemClose>>)

\* a whole tree rendered: the root, a branch, and its items
C8_Witness ==
  /\ strategy = "HTML"
  /\ done = DOMAIN tree
  /\ \E n \in DOMAIN tree :
       tree[n].parent = 0 /\ isBranch(tree[n]) /\ tree[n].children # << >>

-----------------------------------------------------------------------------
(* Reading a Debug output *)

InDebug(n) == strategy = "Debug" /\ n \in done

Keyed(n, key) == InDebug(n) /\ tree[n].key = key

IsNumber(v) == v.t = "number"

RECURSIVE CommaList(_)
CommaList(texts) ==
  IF Len(texts) = 0 THEN << >>
  ELSE IF Len(texts) = 1 THEN texts[1]
  ELSE texts[1] \o <<", ">> \o CommaList(Tail(texts))

AncestorPaths(n) ==
  [i \in DOMAIN tree[n].ancestors |-> <<tree[tree[n].ancestors[i]].path>>]

AncestorValuePaths(n) ==
  [i \in DOMAIN tree[n].ancestors |->
     LET p == tree[tree[n].ancestors[i]].value.path
     IN IF p = UNDEFINED THEN << >> ELSE p]

\* the one line of an "ancestors" with the given list, whatever follows it
\* as the circular annotation
AncestorsLine(n, list) ==
  /\ Count("\n", processResult[n]) = 0
  /\ Contains(Strip(processResult[n]),
              <<"ancestors", " ", "[">> \o list \o <<"]", " ">>)

-----------------------------------------------------------------------------
(* Reading a Values output *)

InValues(n) == strategy = "Values" /\ n \in done

\* the output of n up to its first line break, without its colour codes
OwnLine(n) ==
  LET out == processResult[n]
  IN IF Count("\n", out) = 0 THEN Strip(out)
     ELSE Strip(SubSeq(out, 1, First("\n", out) - 1))

\* prefix + joint + key
ValuesHead(n) == T(tree[n].prefix) \o T(tree[n].joint) \o T(tree[n].key)

\* s is head, followed by nothing but the annotation of a circular node
HeadThenAnnotation(n, s, head) ==
  /\ ContainsAt(s, 1, head)
  /\ IF tree[n].isCircular
     THEN ContainsAt(s, Len(head) + 1, <<" -> ">>) /\ Len(s) = Len(head) + 2
     ELSE Len(s) = Len(head)

\* C11: in the Values View the own line of a branch is prefix + joint + key,
\* with neither the " : " separator nor a value, and the line of a leaf is
\* prefix + joint + key + " : " + the string value of the node; the
\* annotation of a circular node, if any, follows.
C11_ValuesLeafLineHasSeparator ==
  \A n \in DOMAIN tree :
    InValues(n)
    => IF isBranch(tree[n])
       THEN /\ Count(" : ", OwnLine(n)) = 0
            /\ HeadThenAnnotation(n, OwnLine(n), ValuesHead(n))
       ELSE HeadThenAnnotation(n, Strip(processResult[n]),
              ValuesHead(n) \o <<" : ">> \o toString(tree[n]))

-----------------------------------------------------------------------------
(* Reading the decoration of an output *)

InColour(n) == strategy # "HTML" /\ n \in done /\ processResult[n] # << >>

\* the occurrences of code a on the own line of n
OwnStyle(n, a) ==
  IF strategy = "Debug" /\ tree[n].key = "ancestors"
  THEN Count(a, processResult[n])
  ELSE Own(n, a)

\* the styled structure segment, empty when prefix and joint are
StructureBlock(n, c) == Color(c, T(tree[n].prefix) \o T(tree[n].joint))

KeyBlock(n, c) == <<Open(c), tree[n].key, Close(c)>>

\* the own line of n is decorated with the four entries the registry holds
\* now: structure and key segments in place, no colour of another entry,
\* value and circular segments in the colours of theirs
StyledByRegistry(n) ==
  InColour(n)
  => /\ ContainsAt(processResult[n], 1, StructureBlock(n, StructureColor))
     /\ ContainsAt(processResult[n],
                   Len(StructureBlock(n, StructureColor)) + 1,
                   KeyBlock(n, KeyColor))
     /\ \A c \in AllColors :
          OwnStyle(n, Open(c)) > 0
          => c \in {StructureColor, KeyColor, ValueColor, CircularColor}
     /\ strategy = "Types" => OwnStyle(n, Open(ValueColor)) > 0
     /\ (strategy = "Debug" \/ (strategy = "Values" /\ tree[n].isCircular))
          => OwnStyle(n, Open(CircularColor)) > 0

\* the children's text in the new output of n is their cached results
ChildrenFromCache(n) ==
  (/\ isBranch(tree[n])
   /\ processResult'[n] # << >>
   /\ ~(strategy = "Debug" /\ tree[n].key = "ancestors"))
  => Contains(processResult'[n], ChildBlock(tree[n].children))

\* every cached result carries only colours the registry holds now
Uniform ==
  \A n \in done : \A c \in AllColors :
    Count(Open(c), processResult[n]) > 0
    => c \in {StructureColor, KeyColor, ValueColor, CircularColor}

RenderStep ==
  /\ \A n \in done : processResult'[n] = processResult[n]
  /\ \A n \in done' \ done : StyledByRegistry(n)' /\ ChildrenFromCache(n)
  /\ (Uniform /\ registry' = registry) => Uniform'
  /\ registry' # registry => (done' = done /\ writes' = writes + 1)

\* C12: the registry is shared and unisolated. Every invocation decorates
\* its node's own line with the four entries as they are at that step (the
\* last values written) and takes the children's text from their cached
\* results; a cached result never changes afterwards, whatever is written;
\* as long as no write comes between the invocations the results stay
\* decorated with the one registry; before any write they carry the default
\* colours only.
C12_RegistryReadAtEachInvocation ==
  /\ [][RenderStep]_vars
  /\ [](writes = 0 => Uniform)

\* one traversal, three registries: the last child keeps the default key
\* colour, the first child the colour written next, and the root, rendered
\* last, has the colour written last, around the two cached child results
C12_Witness ==
  /\ strategy = "Values"
  /\ Len(tree) = 3 /\ done = DOMAIN tree
  /\ tree[1].children = <<2, 3>>
  /\ Contains(processResult[3], KeyBlock(3, defaultKeyColor))
  /\ Contains(processResult[2], KeyBlock(2, "blue"))
  /\ ContainsAt(processResult[1], 1, KeyBlock(1, "magenta"))
  /\ Contains(processResult[1],
              <<"\n">> \o processResult[2] \o <<"\n">> \o processResult[3])
  /\ KeyColor = "magenta"
  /\ ~Uniform

-----------------------------------------------------------------------------
(* The classes of the HTML elements *)

\* the opening tag of the list item of n
ItemOpening(n) ==
  <<itemOpen, tree[n].path, "\" class=\"", "leaf ", "nt_", kindName(n),
    "\">">>

\* C13: in the HTML View the list item of every node with a parent, leaf or
\* branch, has the class "leaf nt_<kind>", and the root has no item; the
\* class "branch" is written once by a branch, in the opening tag of its
\* list element (ul or ol), and by no leaf.
C13_ItemClassIsLeaf ==
  \A n \in DOMAIN tree :
    InHTML(n)
    => /\ Own(n, "leaf ") = (IF tree[n].parent # 0 THEN 1 ELSE 0)
       /\ tree[n].parent # 0 => ContainsAt(processResult[n], 1, ItemOpening(n))
       /\ Own(n, "branch ") = (IF isBranch(tree[n]) THEN 1 ELSE 0)
       /\ isBranch(tree[n])
            => /\ ContainsAt(processResult[n], First("<", processResult[n]),
                             ListOpening(n))
               /\ First("branch ", processResult[n]) >
                    First("<", processResult[n])

\* a branch with a parent and with children, rendered: its item is of class
\* leaf, its list of class branch
C13_Witness ==
  \E n \in DOMAIN tree :
    /\ InHTML(n)
    /\ tree[n].parent # 0
    /\ isBranch(tree[n])
    /\ tree[n].children # << >>
    /\ Count("leaf ", processResult[n]) > 1

====
